---------------------------- MODULE Spec2Model ----------------------------
(***************************************************************************)
(* Model of the MFL marketplace / scouting dashboard                       *)
(*   src/mfl_market_viewer.py   (marketplace page)                         *)
(*   src/pages/mfl_scouting.py  (scouting page)                            *)
(*                                                                         *)
(* Three parts share this module:                                          *)
(*   - calculate_best_alt_ovr, the positional-overall recompute            *)
(*     (identical in both files), checked under SpecEval;                  *)
(*   - get_floor_price and the persisted floor cache, checked under        *)
(*     SpecFloor, and the per-record pair of floor lookups of the          *)
(*     marketplace main loop, checked under SpecRow;                       *)
(*   - the paging of both pages (initial load, load more, refresh),        *)
(*     checked under SpecPager.                                            *)
(*                                                                         *)
(* Ratings are Python floats in the source.  Weights, attribute scores and *)
(* penalties are integers here, so every rating is a whole number of       *)
(* hundredths; the model keeps ratings in hundredths (Scale) and so stays  *)
(* exact.  round() is Python 3's round-half-to-even.                       *)
(***************************************************************************)
EXTENDS Integers, Sequences, FiniteSets, TLC

VARIABLES
    \* ---- module-level tables and one evaluated player
    weightings_dict,     \* position -> attribute -> weight
    familiarity_dict,    \* (primary, assigned) -> penalty, partial
    player,              \* arguments of calculate_best_alt_ovr, and the age
    result,              \* its return value, NoResult before the call
    \* ---- floor cache
    floor_price_cache,   \* key -> [price, timestamp], partial
    cache_file,          \* content of floor_cache.json
    now,                 \* time.time()
    ticks,               \* number of clock advances so far
    call,                \* the last get_floor_price call
    \* ---- marketplace main loop, one record
    row_pc,
    floor_primary,
    floor_alt,
    row_remote,          \* remote floor lookups made for the record
    \* ---- paging
    page,                \* "market" or "scout"
    listings,            \* st.session_state.listings / scouting_players
    last_id,             \* st.session_state.last_id / scouting_last_id
    local_last_id,       \* the local last_id of the marketplace preload
    iter,                \* loop counter of the initial load
    new_batch,           \* the page returned by the last fetch
    used_cursor,         \* before_id of the last fetch
    n_fetch,             \* page fetches issued by the current handler
    fetch_status,        \* outcome of the last fetch
    pc,                  \* position of the script run
    last_op              \* the handler that ran last

evalVars  == <<weightings_dict, familiarity_dict, player, result>>
floorVars == <<floor_price_cache, cache_file, now, ticks, call>>
rowVars   == <<row_pc, floor_primary, floor_alt, row_remote>>
pagerVars == <<page, listings, last_id, local_last_id, iter, new_batch,
               used_cursor, n_fetch, fetch_status, pc, last_op>>
vars      == <<evalVars, floorVars, rowVars, pagerVars>>

---------------------------------------------------------------------------
\* Python's None: for numbers (age, overall, price, ids) and for positions.
None    == -1
NonePos == "None"

\* base_ovr = weighted_sum / 100: ratings are kept in hundredths.
Scale == 100

---------------------------------------------------------------------------
\* Bounds of the inputs.
MaxStat    == 2
MaxOverall == 2

\* Position codes, in the order the pivot of the weight table lists them.
POSITIONS   == <<"CB", "CDM", "ST">>
PositionSet == {POSITIONS[k] : k \in 1..Len(POSITIONS)}
Attrs       == {"DEF", "SHO"}

WeightRows ==
    { [a \in Attrs |-> IF a = "DEF" THEN 100 ELSE 0],
      [a \in Attrs |-> IF a = "DEF" THEN 0 ELSE 100],
      [a \in Attrs |-> 50] }

\* weightings_dict as the sequence of its items, in iteration order: an empty
\* table, a table of one position, a table of all positions.
WeightTables ==
    { <<>> }
    \cup { << [pos |-> POSITIONS[1], weights |-> w] >> : w \in WeightRows }
    \cup { [k \in 1..Len(POSITIONS) |-> [pos |-> POSITIONS[k], weights |-> f[k]]] :
             f \in [1..Len(POSITIONS) -> WeightRows] }

FamiliarityChoices ==
    { <<>>,
      [pr \in {<<p, q>> : p \in PositionSet, q \in PositionSet} |-> -2],
      (<<"CB", "ST">> :> -1) @@ (<<"ST", "CDM">> :> -3) @@ (<<"CDM", "CB">> :> 1) }

\* (pos_list + [None, None, None])[:3] for a list of distinct positions.
PositionTriples ==
    { <<NonePos, NonePos, NonePos>> }
    \cup { <<p, NonePos, NonePos>> : p \in PositionSet }
    \cup { <<t[1], t[2], NonePos>> : t \in {u \in PositionSet \X PositionSet : u[1] # u[2]} }
    \cup { t \in PositionSet \X PositionSet \X PositionSet :
             t[1] # t[2] /\ t[1] # t[3] /\ t[2] # t[3] }

Players ==
    { [stats |-> s, primary |-> t[1], secondary |-> t[2], tertiary |-> t[3],
       overall |-> o, age |-> 24] :
        s \in [Attrs -> 0..MaxStat], t \in PositionTriples, o \in 0..MaxOverall }

NoResult == [best_alt_position |-> NonePos, best_alt_ovr |-> None,
             delta_to_overall |-> None]

---------------------------------------------------------------------------
\* calculate_best_alt_ovr

RECURSIVE SumOver(_, _)
SumOver(S, f) ==
    IF S = {} THEN 0
    ELSE LET a == CHOOSE x \in S : TRUE IN f[a] + SumOver(S \ {a}, f)

\* sum(player_stats.get(attr, 0) * weights.get(attr, 0) for attr in weights)
WeightedSum(stats, weights) ==
    SumOver(DOMAIN weights,
            [a \in DOMAIN weights |->
                (IF a \in DOMAIN stats THEN stats[a] ELSE 0) * weights[a]])

\* familiarity_dict.get((primary, pos), 0)
FamiliarityGet(fam, primary, pos) ==
    IF <<primary, pos>> \in DOMAIN fam THEN fam[<<primary, pos>>] ELSE 0

Penalty(fam, pos, primary, secondary, tertiary) ==
    IF pos = primary THEN 0
    ELSE IF pos = secondary \/ pos = tertiary THEN -1
    ELSE FamiliarityGet(fam, primary, pos)

Max(a, b) == IF a >= b THEN a ELSE b

\* alt_ovr = max(0, base_ovr + penalty), in hundredths
AltOvr(wd, fam, p, k) ==
    Max(0, WeightedSum(p.stats, wd[k].weights)
           + Scale * Penalty(fam, wd[k].pos, p.primary, p.secondary, p.tertiary))

\* the replacement test of the loop: best_alt_ovr is None or alt_ovr > best_alt_ovr
ReplacesLastWins(best, alt) == (~best.set) \/ alt >= best.ovr
Replaces(best, alt) == (~best.set) \/ alt > best.ovr

\* the for loop over weightings_dict.keys(), from index k on
RECURSIVE BestLoop(_, _, _, _, _)
BestLoop(wd, fam, p, k, best) ==
    IF k > Len(wd) THEN best
    ELSE LET pos == wd[k].pos
             alt == AltOvr(wd, fam, p, k)
             nxt == IF pos # p.primary /\ Replaces(best, alt)
                    THEN [set |-> TRUE, ovr |-> alt, pos |-> pos]
                    ELSE best
         IN BestLoop(wd, fam, p, k + 1, nxt)

BestAlt(wd, fam, p) ==
    BestLoop(wd, fam, p, 1, [set |-> FALSE, ovr |-> 0, pos |-> NonePos])

\* Python 3 round(): to the nearest integer, halves to the even one.
Round(h) ==
    LET q == h \div Scale
        r == h % Scale
    IN IF 2 * r < Scale THEN q
       ELSE IF 2 * r > Scale THEN q + 1
       ELSE IF q % 2 = 0 THEN q ELSE q + 1

\* best_alt_ovr is None or best_alt_ovr <= overall
NoImprovementStrict(best, overall) == (~best.set) \/ best.ovr < Scale * overall
NoImprovement(best, overall) == (~best.set) \/ best.ovr <= Scale * overall

calculate_best_alt_ovr(wd, fam, p) ==
    LET best == BestAlt(wd, fam, p)
    IN IF NoImprovement(best, p.overall)
       THEN [best_alt_position |-> p.primary,
             best_alt_ovr      |-> p.overall,
             delta_to_overall  |-> 0]
       ELSE [best_alt_position |-> best.pos,
             best_alt_ovr      |-> Round(best.ovr),
             delta_to_overall  |-> Round(best.ovr - Scale * p.overall)]

---------------------------------------------------------------------------
\* get_floor_price and the floor cache

CACHE_EXPIRY_SECONDS == 3600

\* Bound on the number of clock advances.
MaxTicks == 2

\* Amounts the clock advances by between two reads of time.time().
TickSteps == {1, CACHE_EXPIRY_SECONDS - 1}

Prices == {5, 7}

\* What requests.get and response.json() can give the floor lookup: an
\* exception, a status other than 200, or a status 200 whose payload is an
\* empty list, an object instead of a list, a list whose first element has no
\* price, or a list whose first element has one.  A payload is its items and
\* whether it is a list; kind names the case.
Response(kind, raises, code, is_list, items) ==
    [kind |-> kind, raises |-> raises, status_code |-> code,
     data |-> [is_list |-> is_list, items |-> items]]

RemoteResponses ==
    { Response("exception", TRUE, 0, TRUE, <<>>),
      Response("non200", FALSE, 500, TRUE, <<>>),
      Response("empty_list", FALSE, 200, TRUE, <<>>),
      Response("non_list", FALSE, 200, FALSE, << [message |-> "error"] >>),
      Response("no_price", FALSE, 200, TRUE, << [listingResourceId |-> 1] >>) }
    \cup { Response("ok", FALSE, 200, TRUE, << [price |-> q] >>) : q \in Prices }

\* generate_floor_key: the md5 digest of f"{age}-{ovr}-{position}".  The
\* formatted string separates three fields that hold no "-" themselves, and the
\* digest is taken to be collision-free, so the key is the triple of fields.
generate_floor_key(age, ovr, position) == <<age, ovr, position>>

\* age is None or ovr is None or position is None
AnyAbsentButPosition(age, ovr, position) == age = None \/ ovr = None
AnyAbsent(age, ovr, position) == age = None \/ ovr = None \/ position = NonePos

\* key in floor_price_cache and now - cached["timestamp"] < CACHE_EXPIRY_SECONDS
IsFreshInverted(cache, key, t) ==
    key \in DOMAIN cache /\ t - cache[key].timestamp > CACHE_EXPIRY_SECONDS
IsFreshInclusive(cache, key, t) ==
    key \in DOMAIN cache /\ t - cache[key].timestamp <= CACHE_EXPIRY_SECONDS
IsFresh(cache, key, t) ==
    key \in DOMAIN cache /\ t - cache[key].timestamp < CACHE_EXPIRY_SECONDS

\* floor_price_cache[key] = entry
Store(cache, key, entry) ==
    [k \in DOMAIN cache \cup {key} |-> IF k = key THEN entry ELSE cache[k]]

\* the entry of a failed lookup: {"price": None, "timestamp": now}
FailureEntryNotStamped(t) == [price |-> None, timestamp |-> 0]
FailureEntry(t) == [price |-> None, timestamp |-> t]

\* no exception, status_code == 200, and
\* data and isinstance(data, list) and "price" in data[0]
LookupSucceeded(resp) ==
    /\ ~resp.raises
    /\ resp.status_code = 200
    /\ resp.data.items # <<>>
    /\ resp.data.is_list
    /\ "price" \in DOMAIN resp.data.items[1]

\* data[0]["price"]
PriceOf(resp) == resp.data.items[1].price

\* One call of get_floor_price with the remote answering resp (when asked).
\* It sets the cache, the file and the record of the call.
get_floor_price(age, ovr, position, resp) ==
    LET key == generate_floor_key(age, ovr, position)
        rec(ret, remote, status) ==
            [age |-> age, ovr |-> ovr, position |-> position, ret |-> ret,
             remote |-> remote, status |-> status, at |-> now]
    IN IF AnyAbsent(age, ovr, position)
       THEN /\ call' = rec(None, 0, "absent_input")
            /\ UNCHANGED <<floor_price_cache, cache_file>>
       ELSE IF IsFresh(floor_price_cache, key, now)
       THEN /\ call' = rec(floor_price_cache[key].price, 0, "cached")
            /\ UNCHANGED <<floor_price_cache, cache_file>>
       ELSE IF LookupSucceeded(resp)
       THEN /\ floor_price_cache' =
                  Store(floor_price_cache, key, [price |-> PriceOf(resp), timestamp |-> now])
            /\ cache_file' = floor_price_cache'
            /\ call' = rec(PriceOf(resp), 1, resp.kind)
       ELSE /\ floor_price_cache' = Store(floor_price_cache, key, FailureEntry(now))
            /\ cache_file' = floor_price_cache'
            /\ call' = rec(None, 1, resp.kind)

\* time passes
Tick ==
    /\ ticks < MaxTicks
    /\ \E d \in TickSteps : now' = now + d
    /\ ticks' = ticks + 1
    /\ UNCHANGED <<floor_price_cache, cache_file, call>>

---------------------------------------------------------------------------
\* States of the parts a specification does not exercise.
EvalIdle ==
    /\ weightings_dict = <<>>
    /\ familiarity_dict = <<>>
    /\ player = [stats |-> [a \in Attrs |-> 0], primary |-> NonePos,
                 secondary |-> NonePos, tertiary |-> NonePos,
                 overall |-> 0, age |-> 24]
    /\ result = NoResult

NoCall == [age |-> None, ovr |-> None, position |-> NonePos,
           ret |-> None, remote |-> 0, status |-> "none", at |-> 0]

FloorIdle ==
    /\ floor_price_cache = <<>>
    /\ cache_file = <<>>
    /\ now = 0
    /\ ticks = 0
    /\ call = NoCall

RowIdle ==
    /\ row_pc = "off"
    /\ floor_primary = None
    /\ floor_alt = None
    /\ row_remote = 0

PagerIdle ==
    /\ page = "off"
    /\ listings = <<>>
    /\ last_id = None
    /\ local_last_id = None
    /\ iter = 0
    /\ new_batch = <<>>
    /\ used_cursor = None
    /\ n_fetch = 0
    /\ fetch_status = "none"
    /\ pc = "off"
    /\ last_op = "none"

---------------------------------------------------------------------------
\* SpecEval: calculate_best_alt_ovr on every bounded input.
InitEval ==
    /\ weightings_dict \in WeightTables
    /\ familiarity_dict \in FamiliarityChoices
    /\ player \in Players
    /\ result = NoResult
    /\ FloorIdle /\ RowIdle /\ PagerIdle

Evaluate ==
    /\ result = NoResult
    /\ result' = calculate_best_alt_ovr(weightings_dict, familiarity_dict, player)
    /\ UNCHANGED <<weightings_dict, familiarity_dict, player>>
    /\ UNCHANGED <<floorVars, rowVars, pagerVars>>

NextEval == Evaluate

SpecEval == InitEval /\ [][NextEval]_vars

\* ---- what the claims about calculate_best_alt_ovr speak of
Evaluated == result # NoResult

\* indices of the table's positions other than the primary
Candidates == {k \in 1..Len(weightings_dict) : weightings_dict[k].pos # player.primary}

\* the rating of a non-primary position as the specification states it (hundredths)
CandidateRating(k) ==
    LET pos == weightings_dict[k].pos
        pen == IF pos = player.secondary \/ pos = player.tertiary THEN -1
               ELSE FamiliarityGet(familiarity_dict, player.primary, pos)
    IN Max(0, WeightedSum(player.stats, weightings_dict[k].weights) + Scale * pen)

\* the first position, in table order, among those of the highest rating
FirstBest ==
    CHOOSE k \in Candidates :
        /\ \A j \in Candidates : CandidateRating(j) <= CandidateRating(k)
        /\ \A j \in Candidates : CandidateRating(j) = CandidateRating(k) => k <= j

SomeCandidateImproves ==
    \E k \in Candidates : CandidateRating(k) > Scale * player.overall

\* C1: a positive delta never comes with a best_alt_ovr below the current
\* overall, and when no non-primary position rates above the current overall
\* (or there is none) the result is the primary, the current overall and delta 0.
C1_NeverBelowCurrent ==
    Evaluated =>
        /\ result.delta_to_overall > 0 => result.best_alt_ovr >= player.overall
        /\ ~SomeCandidateImproves =>
              result = [best_alt_position |-> player.primary,
                        best_alt_ovr      |-> player.overall,
                        delta_to_overall  |-> 0]

C1_Witness ==
    /\ Evaluated
    /\ Candidates # {}
    /\ \E k \in Candidates : CandidateRating(k) = Scale * player.overall
    /\ ~SomeCandidateImproves
    /\ player.overall > 0

\* C2 (as stated): when the best candidate rates above the current overall, the
\* result is that candidate, its rating rounded to the nearest integer, and
\* delta = best_alt_ovr - overall, which is strictly positive.
C2_DeltaIsRoundedMinusCurrent ==
    (Evaluated /\ SomeCandidateImproves) =>
        /\ result.best_alt_position = weightings_dict[FirstBest].pos
        /\ 2 * (Scale * result.best_alt_ovr - CandidateRating(FirstBest)) <= Scale
        /\ 2 * (CandidateRating(FirstBest) - Scale * result.best_alt_ovr) <= Scale
        /\ result.delta_to_overall = result.best_alt_ovr - player.overall
        /\ result.delta_to_overall > 0

\* C9: the chosen candidate is the first position of the highest rating among
\* the positions other than the primary, and the improvement branch never
\* returns the primary.
C9_FirstHighestCandidate ==
    LET best == BestAlt(weightings_dict, familiarity_dict, player)
    IN /\ best.set <=> Candidates # {}
       /\ best.set => /\ best.pos = weightings_dict[FirstBest].pos
                      /\ best.ovr = CandidateRating(FirstBest)
       /\ (Evaluated /\ SomeCandidateImproves) =>
             /\ result.best_alt_position = weightings_dict[FirstBest].pos
             /\ result.best_alt_position # player.primary

C9_Witness ==
    /\ Evaluated
    /\ SomeCandidateImproves
    /\ \E j \in Candidates : j # FirstBest /\ CandidateRating(j) = CandidateRating(FirstBest)
    /\ player.secondary # NonePos

---------------------------------------------------------------------------
\* SpecFloor: calls of get_floor_price on a cache loaded from floor_cache.json.
Ages     == {None, 24}
Overalls == {None, 66}
FloorPositions == {NonePos, "CB", "ST"}

\* what lines 27-34 load: no file, or a file written by an earlier run
InitialCaches ==
    { <<>>,
      (<<24, 66, "ST">> :> [price |-> 5, timestamp |-> 0]) }

InitFloor ==
    /\ cache_file \in InitialCaches
    /\ floor_price_cache = cache_file
    /\ now = 0
    /\ ticks = 0
    /\ call = NoCall
    /\ EvalIdle /\ RowIdle /\ PagerIdle

CallFloor ==
    /\ \E age \in Ages, ovr \in Overalls, position \in FloorPositions,
          resp \in RemoteResponses :
            get_floor_price(age, ovr, position, resp)
    /\ UNCHANGED <<now, ticks>>
    /\ UNCHANGED <<evalVars, rowVars, pagerVars>>

TickFloor ==
    /\ Tick
    /\ UNCHANGED <<evalVars, rowVars, pagerVars>>

NextFloor == CallFloor \/ TickFloor

SpecFloor == InitFloor /\ [][NextFloor]_vars

\* ---- what the claims about get_floor_price speak of
CallStep == call' # call
AllPresent(c) == c.age # None /\ c.ovr # None /\ c.position # NonePos
KeyOf(c) == <<c.age, c.ovr, c.position>>
EntryAge(key) == now - floor_price_cache[key].timestamp

\* C3: with all inputs present, an entry younger than 3600 s is returned with
\* no remote call and no change of the cache; otherwise exactly one remote call
\* is made and the entry is overwritten with the current timestamp.
C3_FreshHitElseOneRemote ==
    [][ (CallStep /\ AllPresent(call')) =>
          LET key == KeyOf(call') IN
          IF key \in DOMAIN floor_price_cache /\ EntryAge(key) < 3600
          THEN /\ call'.ret = floor_price_cache[key].price
               /\ call'.remote = 0
               /\ UNCHANGED <<floor_price_cache, cache_file>>
          ELSE /\ call'.remote = 1
               /\ key \in DOMAIN floor_price_cache'
               /\ floor_price_cache'[key].timestamp = now
               /\ \A k \in DOMAIN floor_price_cache \ {key} :
                     k \in DOMAIN floor_price_cache' /\ floor_price_cache'[k] = floor_price_cache[k]
      ]_vars

\* a lookup of an entry of age exactly 3600 went to the remote
C3_Witness ==
    /\ call.remote = 1
    /\ call.at = 3600
    /\ KeyOf(call) \in DOMAIN floor_price_cache
    /\ floor_price_cache[KeyOf(call)].timestamp = 3600
    /\ Cardinality(DOMAIN floor_price_cache) = 2

FailureKinds == {"exception", "non200", "empty_list", "non_list", "no_price"}

\* C4: a failed remote lookup stores price None with the current timestamp,
\* persists the cache and returns None; the entry stays as it is while it is
\* younger than 3600 s, and a call for the same triple in that time returns
\* None without a remote call.
C4_FailureIsCached ==
    /\ [][ (CallStep /\ AllPresent(call')) =>
              LET key == KeyOf(call') IN
              /\ (call'.remote = 1 /\ call'.status \in FailureKinds) =>
                    /\ floor_price_cache'[key] = [price |-> None, timestamp |-> now]
                    /\ cache_file' = floor_price_cache'
                    /\ call'.ret = None
              /\ (/\ key \in DOMAIN floor_price_cache
                  /\ floor_price_cache[key].price = None
                  /\ EntryAge(key) < 3600) =>
                    /\ call'.ret = None
                    /\ call'.remote = 0
          ]_vars
    /\ [][ \A k \in DOMAIN floor_price_cache :
              (floor_price_cache[k].price = None /\ EntryAge(k) < 3600) =>
                  (k \in DOMAIN floor_price_cache' /\ floor_price_cache'[k] = floor_price_cache[k])
          ]_vars

\* a call 3599 s after a failed lookup of the same triple, answered from the cache
C4_Witness ==
    /\ AllPresent(call)
    /\ call.status = "cached"
    /\ call.ret = None
    /\ floor_price_cache[KeyOf(call)].price = None
    /\ floor_price_cache[KeyOf(call)].timestamp > 0
    /\ call.at - floor_price_cache[KeyOf(call)].timestamp = 3599

\* C5: with age, overall or position absent the call returns None, makes no
\* remote call and leaves the cache and the cache file as they were.
C5_AbsentInputShortCircuit ==
    [][ (CallStep /\ ~AllPresent(call')) =>
          /\ call'.ret = None
          /\ call'.remote = 0
          /\ UNCHANGED <<floor_price_cache, cache_file>>
      ]_vars

C5_Witness ==
    /\ call.status = "absent_input"
    /\ call.age # None /\ call.ovr # None /\ call.position = NonePos
    /\ floor_price_cache # <<>>

---------------------------------------------------------------------------
\* SpecRow: the marketplace main loop on one record: the evaluation, then the
\* floor lookup of the listed overall and primary, then the floor lookup of
\* the evaluation's overall and position.
RowTriples ==
    { <<NonePos, NonePos, NonePos>>, <<"CB", NonePos, NonePos>>, <<"CB", "CDM", NonePos>> }

RowPlayers == {p \in Players : <<p.primary, p.secondary, p.tertiary>> \in RowTriples}

RowTables ==
    { t \in WeightTables :
        Len(t) = Len(POSITIONS) /\ \A k \in 1..Len(t) : t[k].weights = t[1].weights }

\* the cache before the record: empty, or holding the record's own key, written
\* at time 0; the record is processed then or 3599 s later
RowCaches(p) ==
    { <<>>,
      (generate_floor_key(p.age, p.overall, p.primary) :> [price |-> 5, timestamp |-> 0]) }

InitRow ==
    /\ weightings_dict \in RowTables
    /\ familiarity_dict = <<>>
    /\ player \in RowPlayers
    /\ result = NoResult
    /\ cache_file \in RowCaches(player)
    /\ floor_price_cache = cache_file
    /\ now \in {0, CACHE_EXPIRY_SECONDS - 1}
    /\ ticks = 0
    /\ call = NoCall
    /\ row_pc = "calc"
    /\ floor_primary = None
    /\ floor_alt = None
    /\ row_remote = 0
    /\ PagerIdle

\* result = calculate_best_alt_ovr(stats, primary, secondary, tertiary, overall)
RowEvaluate ==
    /\ row_pc = "calc"
    /\ result' = calculate_best_alt_ovr(weightings_dict, familiarity_dict, player)
    /\ row_pc' = "floor_primary"
    /\ UNCHANGED <<weightings_dict, familiarity_dict, player>>
    /\ UNCHANGED <<floorVars, floor_primary, floor_alt, row_remote, pagerVars>>

\* the arguments of the second lookup
AltLookupArgs(p, r) == <<p.age, r.best_alt_ovr, r.best_alt_position>>

\* result["floor_primary"] = get_floor_price(age, overall, primary)
RowFloorPrimary ==
    /\ row_pc = "floor_primary"
    /\ \E resp \in RemoteResponses :
          get_floor_price(player.age, player.overall, player.primary, resp)
    /\ floor_primary' = call'.ret
    /\ row_remote' = row_remote + call'.remote
    /\ row_pc' = "floor_alt"
    /\ UNCHANGED <<evalVars, now, ticks, floor_alt, pagerVars>>

\* result["floor_alt"] = get_floor_price(age, result["best_alt_ovr"], result["best_alt_position"])
RowFloorAlt ==
    /\ row_pc = "floor_alt"
    /\ \E resp \in RemoteResponses :
          LET a == AltLookupArgs(player, result)
          IN get_floor_price(a[1], a[2], a[3], resp)
    /\ floor_alt' = call'.ret
    /\ row_remote' = row_remote + call'.remote
    /\ row_pc' = "done"
    /\ UNCHANGED <<evalVars, now, ticks, floor_primary, pagerVars>>

TickRow ==
    /\ row_pc \in {"floor_primary", "floor_alt"}
    /\ Tick
    /\ UNCHANGED <<evalVars, rowVars, pagerVars>>

NextRow == RowEvaluate \/ RowFloorPrimary \/ RowFloorAlt \/ TickRow

SpecRow == InitRow /\ [][NextRow]_vars

\* ---- what the claim about the two lookups speaks of
NoImprovementSignalled ==
    /\ result.delta_to_overall = 0
    /\ result.best_alt_position = player.primary
    /\ result.best_alt_ovr = player.overall

PrimaryKey == <<player.age, player.overall, player.primary>>

\* C10 (as stated): for a record with no improvement signalled, at most one
\* remote floor lookup is made and floor_alt equals floor_primary.
C10_OneRemoteSameFloor ==
    (row_pc = "done" /\ NoImprovementSignalled) =>
        /\ row_remote <= 1
        /\ floor_alt = floor_primary

\* C10 (amended): for a record with no improvement signalled the second lookup
\* uses the key of the first; when the primary is absent, or the entry the
\* first lookup read or wrote is still younger than 3600 s at the second
\* lookup, the second lookup makes no remote call, so at most one is made for
\* the record, and floor_alt equals floor_primary.
C10_SameKeyWhileFresh ==
    [][ (row_pc = "floor_alt" /\ row_pc' = "done" /\ NoImprovementSignalled) =>
          /\ KeyOf(call') = PrimaryKey
          /\ (\/ player.primary = NonePos
              \/ (PrimaryKey \in DOMAIN floor_price_cache /\ EntryAge(PrimaryKey) < 3600)) =>
                /\ call'.remote = 0
                /\ row_remote' <= 1
                /\ floor_alt' = floor_primary
      ]_vars

\* the first lookup failed at the remote, the second came a second later and
\* was answered from the cache
C10_Witness ==
    /\ row_pc = "done"
    /\ NoImprovementSignalled
    /\ player.primary # NonePos
    /\ row_remote = 1
    /\ floor_primary = None
    /\ floor_alt = None
    /\ call.status = "cached"
    /\ call.at - floor_price_cache[PrimaryKey].timestamp = 1

---------------------------------------------------------------------------
\* SpecPager: the paging of the marketplace page and of the scouting page.
\* A script run is a handler: the first run, a rerun after a widget changed, a
\* refresh, a load more.  pc is where the run stands: "preload" inside the
\* initial-load loop, "shown" with the table and its load-more button on
\* screen, "empty" with the no-results warning, "crashed" when an exception
\* left the run.

\* Bound on the records the remote hands out to one accumulated collection.
MaxRecords == 7

\* listingResourceId / id of the records; a record is modelled by its id.
Ids == {1, 2}

\* a page of the remote: no record, one record or two
Pages ==
    { <<>> } \cup { <<a>> : a \in Ids } \cup { <<a, b>> : a \in Ids, b \in Ids }

\* what requests.get gives load_listings / fetch_scouting_list
FetchOutcomes ==
    { [status |-> "ok", batch |-> b] : b \in Pages }
    \cup { [status |-> "non200", batch |-> <<>>],
           [status |-> "exception", batch |-> <<>>] }

Raised(o) == o.status = "exception"

\* load_listings / fetch_scouting_list: [] on a status other than 200,
\* response.json() otherwise
FetchResult(o) == IF o.status # "ok" THEN <<>> ELSE o.batch

\* for _ in range(6) / for _ in range(3)
PreloadItersOneMore(pg) == IF pg = "market" THEN 7 ELSE 4
PreloadIters(pg) == IF pg = "market" THEN 6 ELSE 3

\* before_id of a fetch of the initial load: the local last_id on the
\* marketplace page, st.session_state.scouting_last_id on the scouting page
PreloadCursor(pg) == IF pg = "market" THEN local_last_id ELSE last_id

\* list.extend(new_batch)
ExtendDedup(lst, batch) == lst \o SelectSeq(batch, LAMBDA x : \A k \in 1..Len(lst) : lst[k] # x)
Extend(lst, batch) == lst \o batch

LastId(batch) == batch[Len(batch)]

\* The rest of a script run once the collection is settled: the marketplace
\* page sets st.session_state.last_id from the last row of a non-empty frame.
RenderedCursor(pg, lst, cursor) ==
    IF pg = "market" /\ lst # <<>> THEN LastId(lst) ELSE cursor

RenderedPc(lst) == IF lst # <<>> THEN "shown" ELSE "empty"

InitPager ==
    /\ page \in {"market", "scout"}
    /\ listings = <<>>
    /\ last_id = None
    /\ local_last_id = None
    /\ iter = 0
    /\ new_batch = <<>>
    /\ used_cursor = None
    /\ n_fetch = 0
    /\ fetch_status = "none"
    /\ pc = "preload"
    /\ last_op = "run"
    /\ EvalIdle /\ FloorIdle /\ RowIdle

\* One iteration of the initial-load loop; the iteration that ends the loop
\* carries the rest of the script run.
PreloadStep ==
    /\ pc = "preload"
    /\ iter < PreloadIters(page)
    /\ \E o \in FetchOutcomes :
        /\ Len(listings) + Len(o.batch) <= MaxRecords
        /\ used_cursor' = PreloadCursor(page)
        /\ n_fetch' = n_fetch + 1
        /\ fetch_status' = o.status
        /\ IF Raised(o)
           THEN /\ pc' = "crashed"
                /\ UNCHANGED <<listings, last_id, local_last_id, iter, new_batch>>
           ELSE LET batch == FetchResult(o) IN
                /\ new_batch' = batch
                /\ IF batch = <<>>
                   THEN \* break
                        /\ listings' = listings
                        /\ UNCHANGED <<local_last_id, iter>>
                        /\ last_id' = RenderedCursor(page, listings,
                                          IF page = "market" THEN local_last_id ELSE last_id)
                        /\ pc' = RenderedPc(listings)
                   ELSE /\ listings' = Extend(listings, batch)
                        /\ iter' = iter + 1
                        /\ local_last_id' = IF page = "market" THEN LastId(batch) ELSE local_last_id
                        /\ IF iter + 1 < PreloadIters(page)
                           THEN /\ pc' = "preload"
                                /\ last_id' = IF page = "market" THEN last_id ELSE LastId(batch)
                           ELSE /\ pc' = RenderedPc(listings')
                                /\ last_id' = RenderedCursor(page, listings', LastId(batch))
    /\ UNCHANGED <<page, last_op>>
    /\ UNCHANGED <<evalVars, floorVars, rowVars>>

\* the session cursor a load more leaves: set by the handler on the scouting
\* page, by the rerun's render on the marketplace page
CursorAfterLoadMore(pg, lst, batch, cursor) ==
    IF pg = "market" THEN RenderedCursor(pg, lst, cursor) ELSE LastId(batch)

\* The load-more button.
LoadMore ==
    /\ pc = "shown"
    /\ \E o \in FetchOutcomes :
        /\ Len(listings) + Len(o.batch) <= MaxRecords
        /\ used_cursor' = last_id
        /\ n_fetch' = 1
        /\ fetch_status' = o.status
        /\ IF Raised(o)
           THEN /\ pc' = "crashed"
                /\ UNCHANGED <<listings, last_id, new_batch>>
           ELSE LET batch == FetchResult(o) IN
                /\ new_batch' = batch
                /\ pc' = "shown"
                /\ IF batch = <<>>
                   THEN UNCHANGED <<listings, last_id>>
                   ELSE /\ listings' = Extend(listings, batch)
                        /\ last_id' = CursorAfterLoadMore(page, listings', batch, last_id)
    /\ last_op' = "load_more"
    /\ UNCHANGED <<page, local_last_id, iter>>
    /\ UNCHANGED <<evalVars, floorVars, rowVars>>

\* the cursor a refresh leaves
RefreshedCursor(cursor) == None

\* The refresh button: both session fields are reset and the script reruns,
\* into the initial load.
Refresh ==
    /\ pc \in {"shown", "empty", "crashed"}
    /\ listings' = <<>>
    /\ last_id' = RefreshedCursor(last_id)
    /\ local_last_id' = None
    /\ iter' = 0
    /\ n_fetch' = 0
    /\ fetch_status' = "none"
    /\ pc' = "preload"
    /\ last_op' = "refresh"
    /\ UNCHANGED <<page, new_batch, used_cursor>>
    /\ UNCHANGED <<evalVars, floorVars, rowVars>>

\* A rerun of the script for any other reason (a filter moved, the page
\* reopened): the initial load when the collection is empty, the render
\* otherwise.
Rerun ==
    /\ pc \in {"shown", "empty", "crashed"}
    /\ n_fetch' = 0
    /\ fetch_status' = "none"
    /\ iter' = 0
    /\ local_last_id' = None
    /\ IF listings = <<>>
       THEN /\ pc' = "preload"
            /\ last_id' = last_id
       ELSE /\ pc' = "shown"
            /\ last_id' = RenderedCursor(page, listings, last_id)
    /\ last_op' = "rerun"
    /\ UNCHANGED <<page, listings, new_batch, used_cursor>>
    /\ UNCHANGED <<evalVars, floorVars, rowVars>>

NextPager == PreloadStep \/ LoadMore \/ Refresh \/ Rerun

SpecPager == InitPager /\ [][NextPager]_vars

\* ---- what the claims about paging speak of
FetchStep == n_fetch' # n_fetch \/ used_cursor' # used_cursor \/ fetch_status' # fetch_status
InPreload == pc = "preload"
Failed(st) == st \in {"non200", "exception"}

\* C6 (as stated): a failed page fetch, a status other than 200 or an
\* exception, gives the empty result and no crash; in the initial load the
\* loop stops there and the records of the earlier pages stay.
C6_FailedFetchRecovered ==
    [][ (pc \in {"preload", "shown"} /\ Failed(fetch_status') /\ pc' # pc) =>
          /\ pc' # "crashed"
          /\ new_batch' = <<>>
          /\ listings' = listings
          /\ InPreload => pc' # "preload"
      ]_vars

\* C7: a load more issues one fetch with the session cursor and appends the
\* page as returned, duplicates included, behind the records already there;
\* afterwards the cursor is the id of the last record of the collection; an
\* empty page changes neither the collection nor the cursor.
C7_LoadMoreAppendsOnePage ==
    [][ (pc = "shown" /\ last_op' = "load_more") =>
          /\ n_fetch' = 1
          /\ used_cursor' = last_id
          /\ fetch_status' = "ok" =>
                /\ listings' = listings \o new_batch'
                /\ new_batch' # <<>> => last_id' = listings'[Len(listings')]
                /\ new_batch' = <<>> => (listings' = listings /\ last_id' = last_id)
      ]_vars

\* a load more has appended a page holding a record that was already there
C7_Witness ==
    /\ last_op = "load_more"
    /\ fetch_status = "ok"
    /\ Len(new_batch) > 1
    /\ Len(listings) > Len(new_batch)
    /\ \E k \in 1..(Len(listings) - Len(new_batch)) : listings[k] = new_batch[1]
    /\ last_id = new_batch[Len(new_batch)]
    /\ last_id # new_batch[1]

\* C8: the initial load starts only on an empty collection, fetches at most 6
\* pages (marketplace) or 3 (scouting), the first with no cursor and each later
\* one with the id of the last record of the page before, and stops at the
\* first empty page.  Every iteration that stays in the loop raises its counter,
\* which stays below the limit, so the loop ends.
C8_BoundedInitialLoad ==
    /\ [](InPreload => listings = <<>> \/ iter > 0)
    /\ [](last_op # "load_more" => n_fetch <= (IF page = "market" THEN 6 ELSE 3))
    /\ [][ (~InPreload /\ InPreload') => (listings' = <<>> /\ n_fetch' = 0) ]_vars
    /\ [][ (InPreload /\ FetchStep) =>
             /\ n_fetch' = n_fetch + 1
             /\ used_cursor' = (IF n_fetch = 0 THEN None ELSE new_batch[Len(new_batch)])
             /\ (fetch_status' = "ok" /\ new_batch' = <<>>) => ~InPreload'
             /\ InPreload' => (iter' = iter + 1 /\ iter' < (IF page = "market" THEN 6 ELSE 3))
         ]_vars

\* an initial load, started by a refresh, that ran its full count of pages,
\* none of them empty
C8_Witness ==
    /\ page = "market"
    /\ last_op = "refresh"
    /\ pc = "shown"
    /\ n_fetch = 6
    /\ Len(listings) >= 6
    /\ new_batch # <<>>

=============================================================================
